---- MODULE Spec2Model ----
(***************************************************************************)
(* A model of spacepy/sandbox/date2num.c: the conversion of a calendar     *)
(* timestamp to a day number (date2num), the ordinal it relies on          *)
(* (ymd_to_ord, quoted from CPython's datetimemodule.c) and the batch      *)
(* driver date2num_common.                                                 *)
(*                                                                         *)
(* A C double is modelled as an exact real number in fixed point: a record *)
(* [d, s, u] standing for d days + s seconds + u microseconds, with        *)
(* 0 <= s < 86400 and 0 <= u < 1000000.  Every intermediate value of the   *)
(* expression at date2num.c:57-60 is an integral number of microseconds,   *)
(* so the representation loses nothing there; the rounding of the IEEE     *)
(* operations is not modelled.                                             *)
(***************************************************************************)
EXTENDS Integers, Sequences, FiniteSets, TLC

VARIABLES
    date,           \* SpecOrd: the (year, month, day) handed to ymd_to_ord
    ord,            \* SpecOrd: <<the value ymd_to_ord returned>>, <<>> before
    conv_in,        \* SpecConv: the two objects handed to date2num, in turn
    conv_out,       \* SpecConv: the doubles date2num returned so far
    pc,             \* date2num_common: position in the function
    args,           \* date2num_common: the argument of the call
    inval,          \* date2num_common: what the data pointer inval points at
    inval_p_len,    \* date2num_common: the loop bound
    i,              \* date2num_common: the loop index
    outval,         \* date2num_common: what the data pointer outval points at
    outval_p,       \* date2num_common: the output array object
    mem,            \* the doubles stored through each pointer, in index order
    result          \* date2num_common: what the caller receives

vars == <<date, ord, conv_in, conv_out, pc, args, inval, inval_p_len, i,
          outval, outval_p, mem, result>>

None == "None"
NoDate == [year |-> 0, month |-> 0, day |-> 0]

(***************************************************************************)
(* Bounds of the model.                                                    *)
(***************************************************************************)
MaxYear == 5        \* SpecOrd draws years 1..MaxYear (and the SpecialYears)
MaxLen == 2         \* longest input array handed to date2num_common

SpecialYears == {100, 400, 1900, 2000}

(***************************************************************************)
(* Exact fixed-point arithmetic standing for the C double operations.      *)
(***************************************************************************)
SecPerDay == 86400
USecPerSec == 1000000

\* (double)n for an int n
ToDouble(n) == [d |-> n, s |-> 0, u |-> 0]

\* x + y
DAdd(x, y) ==
    LET tu == x.u + y.u
        ts == x.s + y.s + (tu \div USecPerSec)
    IN  [d |-> x.d + y.d + (ts \div SecPerDay),
         s |-> ts % SecPerDay,
         u |-> tu % USecPerSec]

\* x * k for a non-negative x and an integer 1 <= k <= 1000
DMul(x, k) ==
    LET tu == x.u * k
        ts == x.s * k + (tu \div USecPerSec)
    IN  [d |-> x.d * k + (ts \div SecPerDay),
         s |-> ts % SecPerDay,
         u |-> tu % USecPerSec]

\* x / k for a non-negative x and an integer 1 <= k <= 1000 (long division)
DDivSmall(x, k) ==
    LET ts == (x.d % k) * SecPerDay + x.s
        tu == (ts % k) * USecPerSec + x.u
    IN  [d |-> x.d \div k, s |-> ts \div k, u |-> tu \div k]

\* x / k; a divisor of 1e6 is applied as two divisions by 1000
DDiv(x, k) ==
    IF k = 1000000 THEN DDivSmall(DDivSmall(x, 1000), 1000)
    ELSE DDivSmall(x, k)

\* x < y
DLess(x, y) ==
    \/ x.d < y.d
    \/ x.d = y.d /\ x.s < y.s
    \/ x.d = y.d /\ x.s = y.s /\ x.u < y.u

(***************************************************************************)
(* The object-like macros of date2num.c:16-19.  A macro is its replacement *)
(* list: the factors of the unparenthesised product it expands to, in      *)
(* textual order.                                                          *)
(***************************************************************************)
HOURS_PER_DAY == <<24>>
MINUTES_PER_DAY == <<60>> \o HOURS_PER_DAY
SECONDS_PER_DAY == <<60>> \o MINUTES_PER_DAY
MUSECONDS_PER_DAY == <<1000000>> \o SECONDS_PER_DAY

RECURSIVE TimesAll(_, _, _)
TimesAll(x, toks, k) ==
    IF k > Len(toks) THEN x ELSE TimesAll(DMul(x, toks[k]), toks, k + 1)

\* (double)n/M after preprocessing: (double)n / M[1] * M[2] * ... , which C
\* parses left to right
DivByMacro(n, M) == TimesAll(DDiv(ToDouble(n), M[1]), M, 2)

(***************************************************************************)
(* The ordinal.  ymd_to_ord is quoted in date2num.c; the two functions it  *)
(* calls live in CPython's datetimemodule.c and are modelled from the      *)
(* description of the algorithm.                                           *)
(***************************************************************************)
is_leap(year) == year % 4 = 0 /\ (year % 100 # 0 \/ year % 400 = 0)

days_in_month(year, month) ==
    IF month = 2 THEN (IF is_leap(year) THEN 29 ELSE 28)
    ELSE IF month \in {4, 6, 9, 11} THEN 30 ELSE 31

days_before_year(year) ==
    LET y == year - 1
    IN  y * 365 + (y \div 4) - (y \div 100) + (y \div 400)

RECURSIVE days_before_month(_, _)
days_before_month(year, month) ==
    IF month <= 1 THEN 0
    ELSE days_before_month(year, month - 1) + days_in_month(year, month - 1)

\* ymd_to_ord with the days_before_month term left out
ymd_to_ord_no_month(year, month, day) == days_before_year(year) + day

\* ymd_to_ord with the month taken zero-based
ymd_to_ord_month_off(year, month, day) ==
    days_before_year(year) + days_before_month(year, month - 1) + day

\* ymd_to_ord counting 01-Jan-0001 as day 0
ymd_to_ord_day0(year, month, day) ==
    days_before_year(year) + days_before_month(year, month) + day - 1

\* date2num.c:33-39: year, month, day -> ordinal, 01-Jan-0001 being day 1
ymd_to_ord(year, month, day) ==
    days_before_year(year) + days_before_month(year, month) + day

(***************************************************************************)
(* date2num (date2num.c:41-62).  An object is a datetime record or         *)
(* NotADate, anything PyDate_Check rejects.                                *)
(***************************************************************************)
NotADate ==
    [type |-> "object", year |-> 0, month |-> 0, day |-> 0,
     hour |-> 0, minute |-> 0, second |-> 0, microsecond |-> 0]

PyDate_Check(obj) == obj.type = "datetime"

Sentinel == ToDouble(-999)

\* date2num with the (double) casts dropped: every quotient is an int division
date2num_int_division(obj) ==
    IF ~PyDate_Check(obj) THEN Sentinel
    ELSE ToDouble(ymd_to_ord(obj.year, obj.month, obj.day)
                  + (obj.hour \div 24)
                  + (obj.minute \div 60) * 24
                  + (obj.second \div 60) * 60 * 24
                  + (obj.microsecond \div 1000000) * 60 * 60 * 24)

date2num(obj) ==
    IF ~PyDate_Check(obj) THEN Sentinel
    ELSE LET ord0 == ToDouble(ymd_to_ord(obj.year, obj.month, obj.day))
         IN  DAdd(ord0,
               DAdd(DAdd(DAdd(DivByMacro(obj.hour, HOURS_PER_DAY),
                              DivByMacro(obj.minute, MINUTES_PER_DAY)),
                         DivByMacro(obj.second, SECONDS_PER_DAY)),
                    DivByMacro(obj.microsecond, MUSECONDS_PER_DAY)))

(***************************************************************************)
(* SpecOrd: ymd_to_ord applied to every valid date of the years drawn.     *)
(***************************************************************************)
OrdYears == (1..MaxYear) \cup SpecialYears

ValidDates ==
    {dt \in [year : OrdYears, month : 1..12, day : 1..31] :
        dt.day <= days_in_month(dt.year, dt.month)}

ConvIdle == conv_in = <<>> /\ conv_out = <<>>

BatchIdle ==
    /\ pc = "idle" /\ args = <<>> /\ inval = None /\ inval_p_len = 0 /\ i = 0
    /\ outval = None /\ outval_p = <<>> /\ mem = <<>> /\ result = <<>>

OrdIdle == date = NoDate /\ ord = <<>>

convVars == <<conv_in, conv_out>>
ordVars == <<date, ord>>
batchVars == <<pc, args, inval, inval_p_len, i, outval, outval_p, mem, result>>

InitOrd == date \in ValidDates /\ ord = <<>> /\ ConvIdle /\ BatchIdle

CallYmdToOrd ==
    /\ date # NoDate /\ ord = <<>>
    /\ ord' = <<ymd_to_ord(date.year, date.month, date.day)>>
    /\ UNCHANGED <<date, convVars, batchVars>>

NextOrd == CallYmdToOrd

SpecOrd == InitOrd /\ [][NextOrd]_vars

(***************************************************************************)
(* SpecConv: date2num applied to two objects, one after the other.         *)
(***************************************************************************)
ConvDates == {<<1, 1, 1>>, <<1, 1, 25>>, <<2000, 1, 1>>, <<2000, 1, 2>>}
ConvHours == {0, 12, 23}
ConvMinutes == {0, 30, 59}
ConvSeconds == {0, 1, 59}
ConvMicroseconds == {0, 500000, 999999}

DateTime(ymd, h, mi, sec, us) ==
    [type |-> "datetime", year |-> ymd[1], month |-> ymd[2], day |-> ymd[3],
     hour |-> h, minute |-> mi, second |-> sec, microsecond |-> us]

Stamps ==
    {DateTime(ymd, h, mi, sec, us) :
        ymd \in ConvDates, h \in ConvHours, mi \in ConvMinutes,
        sec \in ConvSeconds, us \in ConvMicroseconds}

InitConv ==
    /\ conv_in \in (Stamps \cup {NotADate}) \X Stamps
    /\ conv_out = <<>>
    /\ OrdIdle /\ BatchIdle

CallDate2Num ==
    /\ Len(conv_out) < Len(conv_in)
    /\ conv_out' = Append(conv_out, date2num(conv_in[Len(conv_out) + 1]))
    /\ UNCHANGED <<conv_in, ordVars, batchVars>>

NextConv == CallDate2Num

SpecConv == InitConv /\ [][NextConv]_vars

(***************************************************************************)
(* Spec: one call of date2num_common (date2num.c:65-119).                  *)
(*                                                                         *)
(* The function never assigns inval_p_len, inval, outval (before the loop) *)
(* or outval_p (before handing it to PyArray_FromArray): each holds an     *)
(* indeterminate value, which Init and FromArray draw from the values it   *)
(* may hold.  A data pointer is named by what it points at: "indata" the   *)
(* elements of the argument, "outdata" the data of outval_p, "fieldx" the  *)
(* data of fieldx, "wild" anything else.                                   *)
(***************************************************************************)
BatchElems ==
    {NotADate, DateTime(<<2000, 1, 1>>, 0, 0, 0, 0),
     DateTime(<<2000, 1, 2>>, 12, 0, 0, 0)}

RECURSIVE SeqsUpTo(_, _)
SeqsUpTo(S, n) ==
    IF n = 0 THEN {<<>>}
    ELSE LET shorter == SeqsUpTo(S, n - 1)
         IN  shorter \cup {Append(q, e) : q \in shorter, e \in S}

NotAnArray == [isArray |-> FALSE, elems |-> <<>>]

Arguments ==
    {NotAnArray} \cup {[isArray |-> TRUE, elems |-> q] : q \in SeqsUpTo(BatchElems, MaxLen)}

Pending == [kind |-> "pending", ptr |-> None, data |-> <<>>]
ReturnNULL == [kind |-> "NULL", ptr |-> None, data |-> <<>>]

Init ==
    /\ OrdIdle /\ ConvIdle
    /\ pc = "parse"
    /\ args \in Arguments
    /\ inval \in {"indata", "wild"}
    /\ inval_p_len \in 0..(MaxLen + 1)
    /\ i = 0
    /\ outval \in {"outdata", "wild"}
    /\ outval_p = [state |-> "uninitialised", len |-> 0]
    /\ mem = [p \in {"outdata", "wild", "fieldx"} |-> <<>>]
    /\ result = Pending

\* date2num.c:82-85, the argument is not an ndarray
ParseFail ==
    /\ pc = "parse" /\ ~args.isArray
    /\ pc' = "done"
    /\ result' = ReturnNULL
    /\ UNCHANGED <<ordVars, convVars, args, inval, inval_p_len, i, outval,
                   outval_p, mem>>

\* date2num.c:82-85, the argument is an ndarray
ParseOk ==
    /\ pc = "parse" /\ args.isArray
    /\ pc' = "fromarray"
    /\ UNCHANGED <<ordVars, convVars, args, inval, inval_p_len, i, outval,
                   outval_p, mem, result>>

\* date2num.c:87-94: PyArray_FromArray of an indeterminate pointer; its
\* result is not checked
FromArray ==
    /\ pc = "fromarray"
    /\ \/ outval_p' = [state |-> "NULL", len |-> 0]
       \/ \E n \in 0..MaxLen : outval_p' = [state |-> "array", len |-> n]
    /\ i' = 0
    /\ pc' = "loop"
    /\ UNCHANGED <<ordVars, convVars, args, inval, inval_p_len, outval, mem,
                   result>>

\* the values the read inval[k] may yield
ReadInval(k) ==
    IF inval = "indata" /\ k < Len(args.elems) THEN {args.elems[k + 1]}
    ELSE BatchElems

\* the store outval[k] = ... lands outside every object of the program
StrayStore(k) ==
    \/ outval = "wild"
    \/ outval_p.state # "array"
    \/ k >= outval_p.len

\* date2num.c:100-102, one iteration
LoopBody ==
    /\ pc = "loop" /\ i < inval_p_len
    /\ \E obj \in ReadInval(i) :
          mem' = [mem EXCEPT ![outval] = Append(@, date2num(obj))]
    /\ i' = i + 1
    /\ UNCHANGED <<ordVars, convVars, pc, args, inval, inval_p_len, outval,
                   outval_p, result>>

\* date2num.c:101, the stray load or store faults
Fault ==
    /\ pc = "loop" /\ i < inval_p_len
    /\ StrayStore(i) \/ inval = "wild" \/ i >= Len(args.elems)
    /\ pc' = "crashed"
    /\ UNCHANGED <<ordVars, convVars, args, inval, inval_p_len, i, outval,
                   outval_p, mem, result>>

\* date2num.c:100, the loop condition fails
LoopExit ==
    /\ pc = "loop" /\ ~(i < inval_p_len)
    /\ pc' = "data"
    /\ UNCHANGED <<ordVars, convVars, args, inval, inval_p_len, i, outval,
                   outval_p, mem, result>>

\* date2num.c:109
GetData ==
    /\ pc = "data"
    /\ outval' = "fieldx"
    /\ pc' = "return"
    /\ UNCHANGED <<ordVars, convVars, args, inval, inval_p_len, i, outval_p,
                   mem, result>>

\* date2num.c:118
Return ==
    /\ pc = "return"
    /\ result' = [kind |-> "object", ptr |-> outval, data |-> mem[outval]]
    /\ pc' = "done"
    /\ UNCHANGED <<ordVars, convVars, args, inval, inval_p_len, i, outval,
                   outval_p, mem>>

Next ==
    \/ ParseFail
    \/ ParseOk
    \/ FromArray
    \/ LoopBody
    \/ Fault
    \/ LoopExit
    \/ GetData
    \/ Return

Spec == Init /\ [][Next]_vars

(***************************************************************************)
(* The properties checked.                                                 *)
(***************************************************************************)
\* a valid calendar timestamp: a datetime whose time fields are in range
ValidStamp(obj) ==
    /\ obj.type = "datetime"
    /\ obj.year >= 1 /\ obj.month \in 1..12
    /\ obj.day \in 1..days_in_month(obj.year, obj.month)
    /\ obj.hour \in 0..23 /\ obj.minute \in 0..59 /\ obj.second \in 0..59
    /\ obj.microsecond \in 0..999999

\* ordinal + hour/24 + minute/1440 + second/86400 + microsecond/86400000000
DayNumberFormula(obj) ==
    [d |-> ymd_to_ord(obj.year, obj.month, obj.day),
     s |-> obj.hour * 3600 + obj.minute * 60 + obj.second,
     u |-> obj.microsecond]

Midnight(obj) ==
    obj.hour = 0 /\ obj.minute = 0 /\ obj.second = 0 /\ obj.microsecond = 0

Noon(obj) ==
    obj.hour = 12 /\ obj.minute = 0 /\ obj.second = 0 /\ obj.microsecond = 0

\* the timestamp a is earlier than the timestamp b
Earlier(a, b) ==
    LET ka == <<a.year, a.month, a.day, a.hour, a.minute, a.second, a.microsecond>>
        kb == <<b.year, b.month, b.day, b.hour, b.minute, b.second, b.microsecond>>
    IN  \E k \in 1..7 : ka[k] < kb[k] /\ \A j \in 1..(k - 1) : ka[j] = kb[j]

\* C1: for every valid timestamp date2num returns
\* ordinal + hour/24 + minute/1440 + second/86400 + microsecond/86400000000.
C1_FractionOfDay ==
    \A k \in 1..Len(conv_out) :
        ValidStamp(conv_in[k]) => conv_out[k] = DayNumberFormula(conv_in[k])

\* C2: for every valid timestamp the day number date2num returns has the
\* ordinal of the date as its integer part and a fractional part in [0, 1).
C2_IntegerPartIsOrdinal ==
    \A k \in 1..Len(conv_out) :
        ValidStamp(conv_in[k]) =>
            /\ conv_out[k].d = ymd_to_ord(conv_in[k].year, conv_in[k].month,
                                          conv_in[k].day)
            /\ conv_out[k].s \in 0..86399
            /\ conv_out[k].u \in 0..999999

\* C8: two valid timestamps that differ in some field get different day
\* numbers, and the later one gets the strictly larger day number.
C8_Injective ==
    (Len(conv_out) = 2 /\ ValidStamp(conv_in[1]) /\ ValidStamp(conv_in[2])) =>
        /\ conv_in[1] # conv_in[2] => conv_out[1] # conv_out[2]
        /\ Earlier(conv_in[1], conv_in[2]) => DLess(conv_out[1], conv_out[2])

\* C9: date2num of a valid date at 00:00:00.000000 is the ordinal exactly and
\* at 12:00:00.000000 the ordinal plus exactly 0.5; 2000-01-01T00:00:00 and
\* 2000-01-02T12:00:00 give 730120.0 and 730121.5, which differ by 1.5.
C9_MidnightAndNoon ==
    /\ \A k \in 1..Len(conv_out) :
          LET obj == conv_in[k]
              ordinal == ymd_to_ord(obj.year, obj.month, obj.day)
          IN  /\ (ValidStamp(obj) /\ Midnight(obj)) =>
                    conv_out[k] = [d |-> ordinal, s |-> 0, u |-> 0]
              /\ (ValidStamp(obj) /\ Noon(obj)) =>
                    conv_out[k] = [d |-> ordinal, s |-> 43200, u |-> 0]
    /\ (/\ Len(conv_out) = 2
        /\ conv_in[1] = DateTime(<<2000, 1, 1>>, 0, 0, 0, 0)
        /\ conv_in[2] = DateTime(<<2000, 1, 2>>, 12, 0, 0, 0)) =>
            /\ conv_out[1] = [d |-> 730120, s |-> 0, u |-> 0]
            /\ conv_out[2] = [d |-> 730121, s |-> 43200, u |-> 0]
            /\ conv_out[2] = DAdd(conv_out[1], [d |-> 1, s |-> 43200, u |-> 0])

C9_Witness ==
    /\ Len(conv_out) = 2
    /\ conv_in[1] = DateTime(<<2000, 1, 1>>, 0, 0, 0, 0)
    /\ conv_in[2] = DateTime(<<2000, 1, 2>>, 12, 0, 0, 0)
    /\ conv_out[2] = [d |-> 730121, s |-> 43200, u |-> 0]

MonthLengths == <<31, 28, 31, 30, 31, 30, 31, 31, 30, 31, 30, 31>>

GregorianLeap(y) == y % 4 = 0 /\ (y % 100 # 0 \/ y % 400 = 0)

RECURSIVE DaysInMonthsBefore(_, _)
DaysInMonthsBefore(y, m) ==
    IF m = 1 THEN 0
    ELSE DaysInMonthsBefore(y, m - 1) + MonthLengths[m - 1]
         + (IF m - 1 = 2 /\ GregorianLeap(y) THEN 1 ELSE 0)

\* the calendar day after dt
Tomorrow(dt) ==
    LET last == MonthLengths[dt.month]
                + (IF dt.month = 2 /\ GregorianLeap(dt.year) THEN 1 ELSE 0)
    IN  IF dt.day < last THEN [dt EXCEPT !.day = dt.day + 1]
        ELSE IF dt.month < 12 THEN [dt EXCEPT !.month = dt.month + 1, !.day = 1]
        ELSE [year |-> dt.year + 1, month |-> 1, day |-> 1]

\* C5: for every valid date ymd_to_ord is
\* 365*(y-1) + floor((y-1)/4) - floor((y-1)/100) + floor((y-1)/400)
\* + the days of the months before m + day, and ymd_to_ord(1,1,1) = 1.
C5_OrdinalFormula ==
    ord # <<>> =>
        /\ ord[1] = 365 * (date.year - 1) + ((date.year - 1) \div 4)
                    - ((date.year - 1) \div 100) + ((date.year - 1) \div 400)
                    + DaysInMonthsBefore(date.year, date.month) + date.day
        /\ date = [year |-> 1, month |-> 1, day |-> 1] => ord[1] = 1

C5_Witness == date = [year |-> 1, month |-> 1, day |-> 1] /\ ord = <<1>>

\* C6: the ordinal of the next calendar day is the ordinal of the date
\* plus 1, across month ends, year ends and 29 February too.
C6_NextDayIsPlusOne ==
    ord # <<>> =>
        LET next == Tomorrow(date)
        IN  ymd_to_ord(next.year, next.month, next.day) = ord[1] + 1

C6_Witness ==
    /\ ord # <<>>
    /\ date \in {[year |-> 2000, month |-> 2, day |-> 29],
                 [year |-> 1900, month |-> 12, day |-> 31]}

\* C7: ordinal(y,3,1) - ordinal(y,2,1) is 29 when y is divisible by 4 and
\* not by 100 unless also by 400, and 28 otherwise: 29 for 2000, 28 for 1900.
C7_LeapYearRule ==
    (ord # <<>> /\ date.month = 2 /\ date.day = 1) =>
        LET feb == ymd_to_ord(date.year, 3, 1) - ord[1]
        IN  /\ feb = IF GregorianLeap(date.year) THEN 29 ELSE 28
            /\ date.year = 2000 => feb = 29
            /\ date.year = 1900 => feb = 28

C7_Witness ==
    /\ ord # <<>> /\ date.month = 2 /\ date.day = 1
    /\ date.year \in {1900, 2000}

\* the input of the call is an array of n valid timestamps
AllValid == args.isArray /\ \A k \in 1..Len(args.elems) : ValidStamp(args.elems[k])

\* C3: for an input of N valid timestamps date2num_common returns exactly
\* N doubles with output[i] = date2num(input[i]): an empty sequence for N = 0.
C3_ElementwiseOutput ==
    (pc = "done" /\ AllValid) =>
        /\ result.kind = "object"
        /\ Len(result.data) = Len(args.elems)
        /\ \A k \in 1..Len(args.elems) : result.data[k] = date2num(args.elems[k])

\* C4: when some element of the input is not a valid timestamp the call
\* fails with an error and the caller gets no output: no sentinel value and
\* no partly filled sequence.
C4_InvalidInputFails ==
    (pc = "done" /\ args.isArray /\ ~AllValid) =>
        /\ result.kind = "NULL"
        /\ \A p \in DOMAIN mem : \A k \in 1..Len(mem[p]) : mem[p][k] # Sentinel

\* C10: the loop bound and the output data pointer are set to the input
\* length and the output container's data before the loop starts, every
\* store goes to an index within the container, and the pointer is not
\* changed once a store has been made.
C10_SizedBeforeWriting ==
    (pc \in {"loop", "data", "return"} \/ (pc = "done" /\ args.isArray)) =>
        /\ inval_p_len = Len(args.elems)
        /\ outval_p = [state |-> "array", len |-> Len(args.elems)]
        /\ mem["wild"] = <<>> /\ mem["fieldx"] = <<>>
        /\ (mem["outdata"] # <<>> => outval = "outdata")

====
